---- MODULE Spec2Model ----
(***************************************************************************)
(* Model of evm_Ink_Rs: the payload template engine, the identifier        *)
(* sequencer and the batch dispatcher of src/src/main.rs (main, process_id,*)
(* mint, Config::get_hex_text / process_text / set_id / auto_set_id).      *)
(*                                                                         *)
(* Strings are modelled as sequences of tokens, u64 values as naturals     *)
(* below 2^Width, Option<T> as a sequence of length 0 (None) or 1 (Some).  *)
(***************************************************************************)
EXTENDS Integers, Naturals, Sequences, FiniteSets, TLC

VARIABLES
    env,              \* the process environment read by envy::from_env
    overflow_checks,  \* build profile: TRUE panics on u64 overflow, FALSE wraps
    chain_nonce,      \* eth_getTransactionCount(address) at account start
    pc,               \* position of main / mint
    error,            \* the error main ended with ("none" while there is none)
    config,           \* the Config value (main's, then mint's clone)
    current_id,       \* main's local current_id (Option<u64>)
    nonce,            \* main's nonce, then mint's mut nonce
    gas_price,        \* main's gas_price (GasPrice), passed to mint
    to_address,       \* main's to_address (Option: None until it is resolved)
    sleeps,           \* number of sleeps mint has performed between batches
    batch_count,      \* mint local
    i,                \* mint's batch loop variable
    end,              \* mint local: end of the current slot range
    batch,            \* the BatchRequest being filled (sequence of signed txs)
    http_responses,   \* number of responses not yet drained
    count,            \* mint's local response counter
    signed,           \* number of transactions signed so far in the run
    dispatched,       \* the batches the RPC endpoint has received
    last_log,         \* the last per-entry outcome logged
    rpc_error_seen    \* some per-entry RPC error has been logged

vars == <<env, overflow_checks, chain_nonce, pc, error, config, current_id, nonce,
          gas_price, to_address, sleeps,
          batch_count, i, end, batch, http_responses, count, signed,
          dispatched, last_log, rpc_error_seen>>

---------------------------------------------------------------------------
(* Bounds of the model *)

\* u64 is modelled with Width bits
Width == 10
\* the largest small identifier bound written in a marker
MaxSeed == 2
\* the chain nonce at account start ranges over 0..MaxNonce0
MaxNonce0 == 1
\* small requested counts range over 0..MaxSmallCount
MaxSmallCount == 3

(* Program constants *)

\* let batch_size = 100;
batch_size == 100

U64_MAX == 2 ^ Width - 1

\* a digit string too long for u64 (str::parse::<u64> fails on it)
Huge == U64_MAX + 1

None == << >>
Some(v) == << v >>
IsSome(o) == Len(o) = 1
IsNone(o) == Len(o) = 0
Unwrap(o) == o[1]

Min(a, b) == IF a <= b THEN a ELSE b

---------------------------------------------------------------------------
(* Text as tokens.  Every token is a record [t, a, b, x]:                  *)
(*   t = "txt"     ordinary UTF-8 text without brackets                    *)
(*   t = "bin"     bytes that are not valid UTF-8                          *)
(*   t = "0x"      the two characters 0x                                   *)
(*   t = "prefix"  the configured prefix (default data:,)                  *)
(*   t = "[address]" the literal placeholder                               *)
(*   t = "addr"    the canonical sender address                            *)
(*   t = "marker"  a bracket marker [a-b]; a, b the optional digit strings *)
(*   t = "num"     the decimal form of the number a                        *)
(* x = TRUE means the token stands for the hex digits encoding its bytes.  *)

Tok(t) == [t |-> t, a |-> None, b |-> None, x |-> FALSE]
Marker(a, b) == [t |-> "marker", a |-> a, b |-> b, x |-> FALSE]
Num(n) == [t |-> "num", a |-> Some(n), b |-> None, x |-> FALSE]
HexOf(tok) == [tok EXCEPT !.x = TRUE]

StartsWith0x(text) == Len(text) >= 1 /\ text[1] = Tok("0x")

\* str::replace(from, to) for a one-token pattern
Replace(text, from, to) ==
    [j \in DOMAIN text |-> IF text[j] = from THEN to ELSE text[j]]

\* hex::encode_prefixed(bytes)
encode_prefixed(text) == <<Tok("0x")>> \o [j \in DOMAIN text |-> HexOf(text[j])]

\* hex::decode(str): an optional 0x is stripped, every other character must
\* be a hex digit.  Result: [ok, bytes].
hex_decode(str) ==
    LET body == IF StartsWith0x(str) THEN Tail(str) ELSE str
    IN  IF \A j \in DOMAIN body : body[j].x
        THEN [ok |-> TRUE,
              bytes |-> [j \in DOMAIN body |-> [body[j] EXCEPT !.x = FALSE]]]
        ELSE [ok |-> FALSE, bytes |-> << >>]

\* fn decode_hex(hex) -> Result<String, _>
decode_hex(hex) ==
    LET d == hex_decode(hex)
    IN  IF d.ok /\ \A j \in DOMAIN d.bytes : d.bytes[j].t # "bin"
        THEN [ok |-> TRUE, text |-> d.bytes]
        ELSE [ok |-> FALSE, text |-> << >>]

\* str::parse::<u64>().ok() on an optional capture group
ParseU64(digits) ==
    IF IsSome(digits) /\ Unwrap(digits) <= U64_MAX THEN digits ELSE None

---------------------------------------------------------------------------
(* u64 arithmetic: [panic, val].  With overflow checks the operation       *)
(* panics, without them it wraps.                                          *)

U64Result(oc, exact) ==
    IF exact >= 0 /\ exact <= U64_MAX
    THEN [panic |-> FALSE, val |-> exact]
    ELSE IF oc THEN [panic |-> TRUE, val |-> 0]
         ELSE [panic |-> FALSE, val |-> exact % (U64_MAX + 1)]

---------------------------------------------------------------------------
(* The identifier sequencer *)

\* struct Id { id, start_id, end_id, match_id }
Id(id, start_id, end_id, match_id) ==
    [id |-> id, start_id |-> start_id, end_id |-> end_id, match_id |-> match_id]

\* Regex::captures: position of the first \[(\d+)?-(\d+)?] in the text, or 0
FirstMatch(text) ==
    IF \E j \in DOMAIN text : text[j].t = "marker"
    THEN CHOOSE j \in DOMAIN text :
            /\ text[j].t = "marker"
            /\ \A h \in 1..(j - 1) : text[h].t # "marker"
    ELSE 0

\* if end_id.is_none() { u64::MAX } else { end_id.unwrap() - start_id.unwrap() + 1 }
RangeLength(start_id, end_id, oc) ==
    IF IsNone(end_id) THEN [panic |-> FALSE, val |-> U64_MAX]
    ELSE LET diff == U64Result(oc, Unwrap(end_id) - Unwrap(start_id))
         IN  IF diff.panic THEN diff ELSE U64Result(oc, diff.val + 1)

\* fn process_id(text) -> (Option<Id>, Option<u64>, u64)
\* Result [panic, id, current_id, id_count].
process_id(text, oc) ==
    LET m == FirstMatch(text) IN
    IF m = 0
    THEN [panic |-> FALSE, id |-> None, current_id |-> None, id_count |-> U64_MAX]
    ELSE LET match_id == text[m]
             start_id == ParseU64(match_id.a)
             end_id   == ParseU64(match_id.b)
         IN  IF IsNone(start_id)
             THEN IF IsNone(end_id)
                  THEN \* end_id.unwrap() on None
                       [panic |-> TRUE, id |-> None, current_id |-> None,
                        id_count |-> 0]
                  ELSE [panic |-> FALSE,
                        id |-> Some(Id(Unwrap(end_id), start_id, end_id, match_id)),
                        current_id |-> end_id, id_count |-> U64_MAX]
             ELSE LET len == RangeLength(start_id, end_id, oc)
                  IN  [panic |-> len.panic,
                       id |-> Some(Id(Unwrap(start_id), start_id, end_id, match_id)),
                       current_id |-> start_id, id_count |-> len.val]

\* set_id building a fresh Id that keeps only the marker
set_id_fresh(cfg, _id) ==
    [cfg EXCEPT !.id = Some(Id(_id, None, None, Unwrap(cfg.id).match_id))]

\* pub fn set_id(&mut self, _id: u64)
set_id(cfg, _id) ==
    [cfg EXCEPT !.id = Some([Unwrap(cfg.id) EXCEPT !.id = _id])]

\* the next identifier: id.id + 1 when start_id is Some, id.id - 1 otherwise
NextId(id, oc) ==
    IF IsSome(id.start_id) THEN U64Result(oc, id.id + 1)
                           ELSE U64Result(oc, id.id - 1)

\* fn auto_set_id(&mut self).  Result [panic, cfg].
auto_set_id(cfg, oc) ==
    LET next == NextId(Unwrap(cfg.id), oc)
    IN  IF next.panic THEN [panic |-> TRUE, cfg |-> cfg]
        ELSE [panic |-> FALSE, cfg |-> set_id(cfg, next.val)]

---------------------------------------------------------------------------
(* The template engine *)

\* pub fn process_text(&mut self) -> String.  Result [panic, cfg, text].
process_text(cfg, oc) ==
    LET text == Replace(cfg.data, Tok("[address]"), cfg.address) IN
    IF IsSome(cfg.id)
    THEN LET id  == Unwrap(cfg.id)
             adv == auto_set_id(cfg, oc)
         IN  [panic |-> adv.panic, cfg |-> adv.cfg,
              text |-> Replace(text, id.match_id, Num(id.id))]
    ELSE [panic |-> FALSE, cfg |-> cfg, text |-> text]

\* get_hex_text without the starts_with("0x") branch
get_hex_text_always_template(cfg, oc) ==
    LET r == process_text(cfg, oc)
    IN  [panic |-> r.panic, cfg |-> r.cfg,
         ret |-> encode_prefixed(<<cfg.prefix>> \o r.text)]

\* pub fn get_hex_text(&mut self) -> String.  Result [panic, cfg, ret].
get_hex_text(cfg, oc) ==
    IF StartsWith0x(cfg.data)
    THEN [panic |-> FALSE, cfg |-> cfg, ret |-> cfg.data]
    ELSE LET r == process_text(cfg, oc)
         IN  [panic |-> r.panic, cfg |-> r.cfg,
              ret |-> encode_prefixed(<<cfg.prefix>> \o r.text)]

---------------------------------------------------------------------------
(* Gas prices *)

\* parse_units(x, unit): x * 10^decimals as a U256, written [m, e] for m * 10^e
parse_units(x, decimals) ==
    IF x = 0 THEN [m |-> 0, e |-> 0] ELSE [m |-> x, e |-> decimals]

\* U256::from(0)
U256Zero == [m |-> 0, e |-> 0]

\* init_gas_price choosing EIP-1559 only for a non-zero priority fee
init_gas_price_nonzero_fee(cfg) ==
    [eip1559 |-> IsSome(cfg.max_priority_fee_per_gas)
                 /\ Unwrap(cfg.max_priority_fee_per_gas) # 0,
     max_fee_per_gas |-> parse_units(cfg.max_fee_per_gas, 9),
     max_priority_fee_per_gas |->
        IF IsSome(cfg.max_priority_fee_per_gas)
        THEN parse_units(Unwrap(cfg.max_priority_fee_per_gas), 9)
        ELSE U256Zero]

\* pub fn init_gas_price(&self) -> GasPrice
init_gas_price(cfg) ==
    [eip1559 |-> IsSome(cfg.max_priority_fee_per_gas),
     max_fee_per_gas |-> parse_units(cfg.max_fee_per_gas, 9),
     max_priority_fee_per_gas |->
        IF IsSome(cfg.max_priority_fee_per_gas)
        THEN parse_units(Unwrap(cfg.max_priority_fee_per_gas), 9)
        ELSE U256Zero]

---------------------------------------------------------------------------
(* Inputs *)

\* digit strings written as a marker bound
Digits == {0, MaxSeed, U64_MAX}
OptDigits == {None} \cup {Some(d) : d \in Digits \cup {Huge}}
Markers == {Marker(a, b) : a \in OptDigits, b \in OptDigits}

\* {"id":"[a-b]","to":"[address]","again":"[a-b]"}
MarkerTemplates ==
    {<<Tok("txt"), m, Tok("[address]"), m>> : m \in Markers}

PlainTemplates ==
    { <<Tok("txt")>>,                                   \* {"no":"id"}
      <<Tok("txt"), Tok("[address]")>>,
      \* two different markers: the first match wins
      <<Tok("txt"), Marker(Some(MaxSeed), None), Marker(None, Some(MaxSeed))>>,
      << >> }                                           \* data=""

HexTemplates ==
    { <<Tok("0x"), HexOf(Tok("txt"))>>,                 \* 0x68656c6c6f
      <<Tok("0x"), HexOf(Tok("bin"))>>,                 \* 0xdeadbeef
      <<Tok("0x"), Marker(Some(0), Some(MaxSeed))>>,    \* 0x[0-2]
      <<Tok("0x"), HexOf(Tok("txt")), Tok("txt")>> }    \* 0x6869zz

Templates == MarkerTemplates \cup PlainTemplates \cup HexTemplates

\* the templates run with a count that spans more than one batch
LongMarkers ==
    { Marker(Some(MaxSeed), None), Marker(None, Some(U64_MAX)),
      Marker(Some(0), Some(U64_MAX - 1)), Marker(Some(U64_MAX), None) }
LongTemplates ==
    {<<Tok("txt"), m, Tok("[address]"), m>> : m \in LongMarkers}
    \cup { <<Tok("txt")>>, <<Tok("0x"), HexOf(Tok("txt"))>> }

SmallCounts == 0..MaxSmallCount
LargeCounts == {batch_size, batch_size + 1}

\* wallet.address(), and the strings that parse as an address
SenderAddress == "sender"
ValidAddresses == {"sender", "other"}

\* fn default_prefix_gas_limit() -> u64 { 50000 }
default_prefix_gas_limit == 50000

\* the values of to_address, value (ether) and max_priority_fee_per_gas (gwei)
ToAddresses == {None, Some(""), Some("other"), Some("not an address")}
Values == {None, Some(0), Some(1)}
PriorityFees == {None, Some(0), Some(2)}

\* the environment: data may be missing; batch_size, value, to_address and
\* max_priority_fee_per_gas are optional variables
Envs ==
    [data : {None} \cup {Some(t) : t \in Templates},
     count : SmallCounts, batch_size : {None, Some(1), Some(2)},
     to_address : {None}, value : {None}, max_fee_per_gas : {3},
     max_priority_fee_per_gas : {None}]
    \cup
    [data : {Some(t) : t \in LongTemplates},
     count : LargeCounts, batch_size : {None},
     to_address : {None}, value : {None}, max_fee_per_gas : {3},
     max_priority_fee_per_gas : {None}]
    \cup
    [data : {Some(<<Tok("txt")>>),
             Some(<<Tok("txt"), Marker(None, Some(MaxSeed)), Tok("[address]")>>)},
     count : {0, MaxSmallCount}, batch_size : {None},
     to_address : ToAddresses, value : Values, max_fee_per_gas : {0, 3},
     max_priority_fee_per_gas : PriorityFees]
    \cup
    [data : {Some(<<Tok("txt")>>)},
     count : {batch_size + 1}, batch_size : {None},
     to_address : {Some("other")}, value : {Some(1)}, max_fee_per_gas : {3},
     max_priority_fee_per_gas : {Some(2)}]

NoLog == [index |-> 0, ok |-> TRUE]

\* Config before envy::from_env has run
NoConfig ==
    [prefix |-> Tok("prefix"), address |-> Tok(""), count |-> 0,
     data |-> << >>, id |-> None, to_address |-> None, max_fee_per_gas |-> 0,
     max_priority_fee_per_gas |-> None, gas_limit |-> default_prefix_gas_limit]

Init ==
    /\ env \in Envs
    /\ overflow_checks \in BOOLEAN
    /\ chain_nonce \in 0..MaxNonce0
    /\ pc = "from_env"
    /\ error = "none"
    /\ config = NoConfig
    /\ current_id = None
    /\ nonce = 0
    /\ gas_price = init_gas_price(NoConfig)
    /\ to_address = None
    /\ sleeps = 0
    /\ batch_count = 0
    /\ i = 0
    /\ end = 0
    /\ batch = << >>
    /\ http_responses = 0
    /\ count = 0
    /\ signed = 0
    /\ dispatched = << >>
    /\ last_log = NoLog
    /\ rpc_error_seen = FALSE

mint_locals == <<batch_count, i, end, batch, http_responses, count>>
ghost == <<signed, dispatched, last_log, rpc_error_seen>>
inputs == <<env, overflow_checks, chain_nonce>>

---------------------------------------------------------------------------
(* main *)

\* let mut config = envy::from_env::<Config>()?;
FromEnv ==
    /\ pc = "from_env"
    /\ IF IsNone(env.data)
       THEN /\ pc' = "exit_err"
            /\ error' = "missing_field"
            /\ UNCHANGED config
       ELSE /\ pc' = "connect"
            /\ config' = [NoConfig EXCEPT
                    !.data = Unwrap(env.data),
                    !.count = env.count,
                    !.to_address = env.to_address,
                    !.max_fee_per_gas = env.max_fee_per_gas,
                    !.max_priority_fee_per_gas = env.max_priority_fee_per_gas]
            /\ UNCHANGED error
    /\ UNCHANGED <<inputs, sleeps, gas_price, to_address, current_id, nonce, mint_locals, ghost>>

\* provider, get_chainid, wallet, get_transaction_count, init_gas_price:
\* the network calls may fail (?)
Connect ==
    /\ pc = "connect"
    /\ \E ok \in BOOLEAN :
         IF ok THEN /\ pc' = "process_id"
                    /\ nonce' = chain_nonce
                    /\ gas_price' = init_gas_price(config)
                    /\ UNCHANGED error
               ELSE /\ pc' = "exit_err"
                    /\ error' = "provider"
                    /\ UNCHANGED <<nonce, gas_price>>
    /\ UNCHANGED <<inputs, sleeps, to_address, config, current_id, mint_locals, ghost>>

\* the recipient of lines 143-151: [ok, addr]; str.parse() fails on a string
\* that is no address
ResolveToAddress_always_sender(to, address) == [ok |-> TRUE, addr |-> address]
ResolveToAddress(to, address) ==
    IF IsSome(to)
    THEN IF Unwrap(to) = "" THEN [ok |-> TRUE, addr |-> address]
         ELSE IF Unwrap(to) \in ValidAddresses
              THEN [ok |-> TRUE, addr |-> Unwrap(to)]
              ELSE [ok |-> FALSE, addr |-> address]
    ELSE [ok |-> TRUE, addr |-> address]

\* let (id, current_id, id_count) = process_id(&config.data);
\* config.id = id; config.count = min(config.count, id_count);
\* config.address = format!("{:?}", address);
\* let to_address = ..; config.to_address = Some(format!("{:?}", to_address));
ProcessId ==
    /\ pc = "process_id"
    /\ LET r == process_id(config.data, overflow_checks)
           to == ResolveToAddress(config.to_address, SenderAddress)
           cfg == [config EXCEPT !.id = r.id,
                                 !.count = Min(config.count, r.id_count),
                                 !.address = Tok("addr")]
       IN
       IF r.panic
       THEN /\ pc' = "panic"
            /\ UNCHANGED <<config, current_id, to_address, error>>
       ELSE /\ current_id' = r.current_id
            /\ IF to.ok
               THEN /\ pc' = "check_data"
                    /\ to_address' = Some(to.addr)
                    /\ config' = [cfg EXCEPT !.to_address = Some(to.addr)]
                    /\ UNCHANGED error
               ELSE /\ pc' = "exit_err"
                    /\ error' = "to_address"
                    /\ config' = cfg
                    /\ UNCHANGED to_address
    /\ UNCHANGED <<inputs, sleeps, gas_price, nonce, mint_locals, ghost>>

\* config.data.is_empty()
DataIsEmpty_never(cfg) == FALSE
DataIsEmpty(cfg) == cfg.data = << >>

\* if config.data.is_empty() { error!(..); process::exit(1); }
CheckData ==
    /\ pc = "check_data"
    /\ IF DataIsEmpty(config)
       THEN pc' = "exit_err" /\ error' = "data_empty"
       ELSE pc' = "preview" /\ UNCHANGED error
    /\ UNCHANGED <<inputs, sleeps, gas_price, to_address, config, current_id, nonce, mint_locals, ghost>>

\* let data = config.get_hex_text(); let text = decode_hex(&data)?;
Preview ==
    /\ pc = "preview"
    /\ LET r == get_hex_text(config, overflow_checks) IN
       IF r.panic
       THEN /\ pc' = "panic"
            /\ UNCHANGED <<config, error>>
       ELSE /\ config' = r.cfg
            /\ IF decode_hex(r.ret).ok
               THEN pc' = "set_id" /\ UNCHANGED error
               ELSE pc' = "exit_err" /\ error' = "decode_hex"
    /\ UNCHANGED <<inputs, sleeps, gas_price, to_address, current_id, nonce, mint_locals, ghost>>

\* the value of batch_count in mint: (config.count + batch_size - 1) / batch_size
BatchCount(n) == (n + batch_size - 1) \div batch_size

\* if let Some(id) = current_id { config.set_id(id); }
RestoreId_skip(cfg, cur) == cfg
RestoreId(cfg, cur) == IF IsSome(cur) THEN set_id(cfg, Unwrap(cur)) ELSE cfg

\* if let Some(id) = current_id { config.set_id(id); }
\* mint(&client, &wallet, config.clone(), &gas_price, nonce, to_address)
\* and mint's first statements (lines 212-215)
CallMint ==
    /\ pc = "set_id"
    /\ config' = RestoreId(config, current_id)
    /\ batch_count' = BatchCount(config.count)
    /\ i' = 0
    /\ pc' = "mint_loop"
    /\ UNCHANGED <<inputs, sleeps, gas_price, to_address, error, current_id, nonce, end, batch, http_responses,
                   count, ghost>>

\* info!("任务执行完毕 ..."); sleep(1000 s); Ok(())
MainReturn ==
    /\ pc = "mint_ok"
    /\ pc' = "exit_ok"
    /\ UNCHANGED <<inputs, sleeps, gas_price, to_address, error, config, current_id, nonce, mint_locals, ghost>>

---------------------------------------------------------------------------
(* mint *)

\* Bytes::from_str(&data): [ok, bytes]
BytesFromStr(data) == hex_decode(data)

\* the transaction built at lines 227-251 (both branches set value(0))
BuildTx(gp, cfg, n, data, to) ==
    IF gp.eip1559
    THEN [type |-> "eip1559", from |-> SenderAddress, to |-> to,
          value |-> U256Zero, nonce |-> n, data |-> data, gas |-> cfg.gas_limit,
          max_fee_per_gas |-> Some(gp.max_fee_per_gas),
          max_priority_fee_per_gas |-> Some(gp.max_priority_fee_per_gas),
          gas_price |-> None]
    ELSE [type |-> "legacy", from |-> SenderAddress, to |-> to,
          value |-> U256Zero, nonce |-> n, data |-> data, gas |-> cfg.gas_limit,
          max_fee_per_gas |-> None, max_priority_fee_per_gas |-> None,
          gas_price |-> Some(gp.max_fee_per_gas)]

\* the nonce after one signed transaction: nonce = nonce + 1
NextNonce_stuck(n) == n
NextNonce(n) == n + 1

\* execute_batch(..).await?  : where mint goes when the HTTP dispatch fails
OnDispatchError_continue == "drain"
OnDispatchError == "exit_err"

\* the match on tx_response: where mint goes after logging one response
AfterResponse_abort(ok) == IF ok THEN "drain" ELSE "exit_err"
AfterResponse(ok) == "drain"

\* the index counted inside the batch only
LogIndex_per_batch(b, k) == k + 1

\* the absolute index logged for the k-th response of batch b
LogIndex(b, k) == b * batch_size + k + 1

\* for i in 0..batch_count { start, end, current_batch_size, banner, batch }
MintLoop ==
    /\ pc = "mint_loop"
    /\ IF i < batch_count
       THEN /\ end' = Min((i + 1) * batch_size, config.count)
            /\ batch' = << >>
            /\ pc' = "sign"
       ELSE /\ pc' = "mint_ok"
            /\ UNCHANGED <<end, batch>>
    /\ UNCHANGED <<inputs, sleeps, gas_price, to_address, error, config, current_id, nonce, batch_count, i,
                   http_responses, count, ghost>>

\* one iteration of  for _ in start..end  (lines 222-260)
SignTx ==
    /\ pc = "sign"
    /\ i * batch_size + Len(batch) < end
    /\ LET r == get_hex_text(config, overflow_checks)
           data == BytesFromStr(r.ret)
       IN  IF r.panic
           THEN /\ pc' = "panic"
                /\ UNCHANGED <<config, batch, nonce, signed, error>>
           ELSE /\ config' = r.cfg
                /\ \E sign_ok \in BOOLEAN :
                     IF data.ok /\ sign_ok
                     THEN /\ batch' = Append(batch, BuildTx(gas_price, config, nonce,
                                                          data.bytes, Unwrap(to_address)))
                          /\ nonce' = NextNonce(nonce)
                          /\ signed' = signed + 1
                          /\ pc' = "sign"
                          /\ UNCHANGED error
                     ELSE /\ pc' = "exit_err"
                          /\ error' = IF data.ok THEN "sign" ELSE "bytes"
                          /\ UNCHANGED <<batch, nonce, signed>>
    /\ UNCHANGED <<inputs, sleeps, gas_price, to_address, current_id, batch_count, i, end, http_responses,
                   count, dispatched, last_log, rpc_error_seen>>

\* provider.execute_batch(&mut batch).await?   let mut count = 0;
Dispatch ==
    /\ pc = "sign"
    /\ i * batch_size + Len(batch) >= end
    /\ \E http_ok \in BOOLEAN :
         IF http_ok
         THEN /\ dispatched' = Append(dispatched,
                                 [size |-> Len(batch), first |-> batch[1].nonce,
                                  last |-> batch[Len(batch)].nonce])
              /\ http_responses' = Len(batch)
              /\ count' = 0
              /\ pc' = "drain"
              /\ UNCHANGED error
         ELSE /\ pc' = OnDispatchError
              /\ error' = "http"
              /\ UNCHANGED <<dispatched, http_responses, count>>
    /\ UNCHANGED <<inputs, sleeps, gas_price, to_address, config, current_id, nonce, batch_count, i, end,
                   batch, signed, last_log, rpc_error_seen>>

\* while let Some(tx_response) = http_responses.next_response::<H256>() {..}
Drain ==
    /\ pc = "drain"
    /\ http_responses > 0
    /\ \E ok \in BOOLEAN :
         /\ last_log' = [index |-> LogIndex(i, count), ok |-> ok]
         /\ rpc_error_seen' = (rpc_error_seen \/ ~ok)
         /\ pc' = AfterResponse(ok)
    /\ count' = count + 1
    /\ http_responses' = http_responses - 1
    /\ UNCHANGED <<inputs, sleeps, gas_price, to_address, error, config, current_id, nonce, batch_count, i, end,
                   batch, signed, dispatched>>

\* next_response() returns None: no entry of the response is left
DrainDone_early(n) == TRUE
DrainDone(n) == n = 0

\* the end of the while loop and of the body of the for loop
EndBatch ==
    /\ pc = "drain"
    /\ DrainDone(http_responses)
    /\ i' = i + 1
    /\ pc' = "mint_loop"
    /\ UNCHANGED <<inputs, sleeps, gas_price, to_address, error, config, current_id, nonce, batch_count, end, batch,
                   http_responses, count, ghost>>

Next ==
    \/ FromEnv
    \/ Connect
    \/ ProcessId
    \/ CheckData
    \/ Preview
    \/ CallMint
    \/ MintLoop
    \/ SignTx
    \/ Dispatch
    \/ Drain
    \/ EndBatch
    \/ MainReturn

Spec == Init /\ [][Next]_vars

---------------------------------------------------------------------------
(* Vocabulary of the properties *)

RECURSIVE SumSizes(_)
SumSizes(seq) == IF seq = << >> THEN 0 ELSE seq[1].size + SumSizes(Tail(seq))

\* mint has returned Ok(true)
Done == pc \in {"mint_ok", "exit_ok"}

\* the template of the run (empty when data is missing)
Data == IF IsSome(env.data) THEN Unwrap(env.data) ELSE << >>

\* the position in signing order (1-based) of the j-th entry of the batch
SigningIndex(j) == signed - Len(batch) + j

HasMarker == ~StartsWith0x(Data) /\ FirstMatch(Data) # 0
TheMarker == Data[FirstMatch(Data)]
MarkerStart == ParseU64(TheMarker.a)
MarkerEnd == ParseU64(TheMarker.b)

\* the bytes of prefix ++ data with [address] and every occurrence of the
\* first marker replaced, the marker by the decimal form of v
Expanded(v) ==
    <<Tok("prefix")>>
    \o Replace(Replace(Data, Tok("[address]"), Tok("addr")), TheMarker, Num(v))

---------------------------------------------------------------------------
---------------------------------------------------------------------------
\* fn default_batch_size() -> u64 { 100 }
default_batch_size == 100

\* the batch_size the environment configures
ConfiguredBatchSize ==
    IF IsSome(env.batch_size) THEN Unwrap(env.batch_size) ELSE default_batch_size

(* C2: a completed run with effective count N and configured batch_size B   *)
(* has dispatched exactly ceil(N/B) batches, each of 1..B entries, all but  *)
(* the last of B entries, with sizes summing to N.                          *)
C2_ConfiguredBatchSizeHonoured ==
    Done =>
      /\ Len(dispatched) =
           (config.count + ConfiguredBatchSize - 1) \div ConfiguredBatchSize
      /\ \A d \in DOMAIN dispatched :
           /\ dispatched[d].size \in 1..ConfiguredBatchSize
           /\ d < Len(dispatched) => dispatched[d].size = ConfiguredBatchSize
      /\ SumSizes(dispatched) = config.count

---------------------------------------------------------------------------
StartPresent == HasMarker /\ IsSome(MarkerStart)

---------------------------------------------------------------------------
EndOnly == HasMarker /\ IsNone(MarkerStart) /\ IsSome(MarkerEnd)

(* C4: with a marker [-b] the run never fails for any b >= 0 and count N:   *)
(* the k-th transaction signed carries b - (k - 1) and a completed run has  *)
(* signed exactly N transactions.                                           *)
C4_DescendingUnbounded ==
    EndOnly =>
      /\ pc # "panic"
      /\ \A j \in DOMAIN batch :
           batch[j].data = Expanded(Unwrap(MarkerEnd) - (SigningIndex(j) - 1))
      /\ Done => signed = env.count

---------------------------------------------------------------------------
\* end - start + 1 for a marker with both bounds (start <= end), unbounded
\* otherwise
ClaimedRangeLength ==
    IF HasMarker /\ IsSome(MarkerStart) /\ IsSome(MarkerEnd)
    THEN Unwrap(MarkerEnd) - Unwrap(MarkerStart) + 1
    ELSE U64_MAX

WellFormedRange ==
    (HasMarker /\ IsSome(MarkerStart) /\ IsSome(MarkerEnd))
        => Unwrap(MarkerStart) <= Unwrap(MarkerEnd)

(* C5: a completed run has signed and submitted exactly                     *)
(* min(count, range_length) transactions (stated for ranges with            *)
(* start <= end).                                                           *)
C5_EffectiveCount ==
    (Done /\ WellFormedRange) =>
      /\ signed = Min(env.count, ClaimedRangeLength)
      /\ SumSizes(dispatched) = signed

---------------------------------------------------------------------------
(* C6: a per-entry RPC error neither aborts mint nor rolls the nonce back:  *)
(* every step taken while the responses are drained stays in the drain loop *)
(* or goes on to the next batch, leaves the nonce at nonce0 + signed and    *)
(* raises no error; and the first transaction signed after an RPC error was *)
(* logged carries nonce0 plus the number of transactions signed before it.  *)
C6_RpcErrorsDoNotAbortOrRollBack ==
    [][ /\ pc = "drain" =>
            /\ pc' \in {"drain", "mint_loop"}
            /\ nonce' = nonce
            /\ nonce = chain_nonce + signed
            /\ error' = "none"
        /\ (rpc_error_seen /\ pc = "sign" /\ batch = << >> /\ Len(batch') = 1) =>
            batch'[1].nonce = chain_nonce + signed
      ]_vars

\* the second batch was dispatched after an RPC error was logged for the first
C6_Witness ==
    /\ rpc_error_seen
    /\ ~last_log.ok
    /\ last_log.index = batch_size
    /\ Len(dispatched) = 2
    /\ dispatched[2].first = chain_nonce + batch_size

---------------------------------------------------------------------------
(* C7: when the HTTP dispatch of a batch fails, or the payload bytes or the *)
(* signature of a transaction cannot be produced, mint has returned the     *)
(* error: the entries of the batch in hand were not submitted, and from     *)
(* then on nothing is signed and nothing is dispatched.                     *)
C7_FailureAbortsMint ==
    /\ [](error \in {"http", "sign", "bytes"} =>
            /\ pc = "exit_err"
            /\ SumSizes(dispatched) = signed - Len(batch))
    /\ [][error # "none" =>
            /\ dispatched' = dispatched
            /\ signed' = signed
            /\ batch' = batch]_vars

\* the dispatch of the second batch failed after the first had been sent
C7_Witness ==
    /\ error = "http"
    /\ pc = "exit_err"
    /\ Len(dispatched) = 1
    /\ Len(batch) = 1
    /\ signed = batch_size + 1

---------------------------------------------------------------------------
---------------------------------------------------------------------------
FirstMarkerIsBare == HasMarker /\ TheMarker = Marker(None, None)

(* C9: a template whose first marker is [-] is run like one without a       *)
(* marker: no panic, no Id, the count unchanged, and a completed run has    *)
(* signed count transactions.                                               *)
C9_BareMarkerIsNoMarker ==
    FirstMarkerIsBare =>
      /\ pc # "panic"
      /\ config.id = None
      /\ pc \notin {"from_env", "connect", "process_id"} => config.count = env.count
      /\ Done => signed = env.count

---------------------------------------------------------------------------
DataMissingOrEmpty == IsNone(env.data) \/ env.data = Some(<< >>)

(* C10: with data missing or empty the run never gets past the check of     *)
(* data: nothing is signed, no batch is built or dispatched, and the run    *)
(* never ends successfully.                                                 *)
C10_EmptyDataIsFatal ==
    DataMissingOrEmpty =>
      /\ signed = 0
      /\ batch = << >>
      /\ dispatched = << >>
      /\ pc \in {"from_env", "connect", "process_id", "check_data", "exit_err"}

\* the run with data="" ended in the fatal error of the check
C10_Witness ==
    /\ env.data = Some(<< >>)
    /\ env.count > 0
    /\ IsSome(env.batch_size)
    /\ pc = "exit_err"
    /\ error = "data_empty"

---------------------------------------------------------------------------
(* C11: mint sleeps once after every dispatched batch, the last included:   *)
(* whenever mint stands between two batches or has returned, it has slept   *)
(* as many times as batches were dispatched.                                *)
C11_SleepAfterEveryBatch ==
    pc \in {"mint_loop", "mint_ok", "exit_ok"} => sleeps = Len(dispatched)

---------------------------------------------------------------------------
\* the configured value in wei: parse_units(self.value, "ether"), default 0.0
ConfiguredValue ==
    parse_units(IF IsSome(env.value) THEN Unwrap(env.value) ELSE 0, 18)

(* C12: every transaction built, legacy or EIP-1559, carries the configured *)
(* value in wei in its value field.                                         *)
C12_ValueIsConfigured ==
    \A j \in DOMAIN batch : batch[j].value = ConfiguredValue

---------------------------------------------------------------------------
(* C13: every transaction of a run is an EIP-1559 transaction carrying the  *)
(* configured max fee and priority fee (in wei) if and only if              *)
(* max_priority_fee_per_gas is configured, and otherwise a legacy           *)
(* transaction whose gas_price is the configured max_fee_per_gas; the       *)
(* GasPrice handed to mint says the same.                                   *)
C13_TransactionTypeFixed ==
    /\ pc \notin {"from_env", "connect"} /\ error \notin {"missing_field", "provider"}
         => gas_price.eip1559 = IsSome(env.max_priority_fee_per_gas)
    /\ \A j \in DOMAIN batch :
         IF IsSome(env.max_priority_fee_per_gas)
         THEN /\ batch[j].type = "eip1559"
              /\ batch[j].max_fee_per_gas =
                    Some(parse_units(env.max_fee_per_gas, 9))
              /\ batch[j].max_priority_fee_per_gas =
                    Some(parse_units(Unwrap(env.max_priority_fee_per_gas), 9))
              /\ batch[j].gas_price = None
         ELSE /\ batch[j].type = "legacy"
              /\ batch[j].gas_price = Some(parse_units(env.max_fee_per_gas, 9))
              /\ batch[j].max_fee_per_gas = None
              /\ batch[j].max_priority_fee_per_gas = None

\* a completed EIP-1559 run of two batches
C13_Witness ==
    /\ pc = "exit_ok"
    /\ Len(dispatched) = 2
    /\ IsSome(env.max_priority_fee_per_gas)
    /\ batch[1].type = "eip1559"

---------------------------------------------------------------------------
\* the recipient the configuration asks for
ConfiguredRecipient ==
    IF IsSome(env.to_address) /\ Unwrap(env.to_address) # ""
    THEN Unwrap(env.to_address) ELSE SenderAddress

(* C14: the recipient, once resolved, and the recipient of every            *)
(* transaction is the configured to_address when that is present and not    *)
(* empty, and the sender's own address otherwise.                           *)
C14_RecipientFixed ==
    /\ IsSome(to_address) => Unwrap(to_address) = ConfiguredRecipient
    /\ \A j \in DOMAIN batch : batch[j].to = ConfiguredRecipient

\* the second batch of a run to another address has been sent
C14_Witness ==
    /\ pc = "exit_ok"
    /\ Len(dispatched) = 2
    /\ env.to_address = Some("other")
    /\ batch[1].to = "other"
    /\ batch[1].from = SenderAddress

---------------------------------------------------------------------------
(* C15: once process_id has run, a template whose first marker is [a-],     *)
(* [-b] or [a-b] has an Id whose start and end are the bounds written       *)
(* (absent where none is written) and a seed equal to start when a start is *)
(* written and to end otherwise; a template without marker has no Id, no    *)
(* seed and an unbounded range (the count is left as configured).           *)
C15_MarkerParsing ==
    config.address = Tok("addr") =>
        IF FirstMatch(Data) = 0
        THEN /\ config.id = None
             /\ current_id = None
             /\ config.count = env.count
        ELSE (IsSome(TheMarker.a) \/ IsSome(TheMarker.b)) =>
                /\ IsSome(config.id)
                /\ Unwrap(config.id).start_id = TheMarker.a
                /\ Unwrap(config.id).end_id = TheMarker.b
                /\ Unwrap(config.id).match_id = TheMarker
                /\ current_id = IF IsSome(TheMarker.a) THEN TheMarker.a
                                                       ELSE TheMarker.b

---------------------------------------------------------------------------
(* C16: the k-th response (0-based) of batch i is logged with index         *)
(* i * batch_size + k + 1; each logged index is one more than the index     *)
(* logged before it (the first is 1) and is the position in signing order   *)
(* of the transaction it reports, the one with nonce nonce0 + index - 1; a  *)
(* completed run has logged every index up to the number signed.            *)
C16_LogIndices ==
    /\ [][ count' = count + 1 =>
            /\ last_log'.index = i * batch_size + count + 1
            /\ last_log'.index = last_log.index + 1
            /\ last_log'.index = SigningIndex(count + 1)
            /\ batch[count + 1].nonce = chain_nonce + last_log'.index - 1 ]_vars
    /\ [](Done => last_log.index = signed)

\* the only response of the second batch has been logged
C16_Witness ==
    /\ pc = "exit_ok"
    /\ Len(dispatched) = 2
    /\ last_log.index = batch_size + 1
    /\ batch[1].nonce = chain_nonce + batch_size

---------------------------------------------------------------------------
(* C17: entries of a response are left only while mint drains it; a         *)
(* transaction is signed and a batch is dispatched only when no entry of an *)
(* earlier response is left, and a batch is dispatched once, holding every  *)
(* transaction signed since the dispatch before it.                         *)
C17_OneBatchOutstanding ==
    /\ [](http_responses > 0 => pc = "drain")
    /\ [][ (signed' # signed \/ dispatched' # dispatched) =>
              http_responses = 0 ]_vars
    /\ [][ dispatched' # dispatched =>
              /\ Len(dispatched') = i + 1
              /\ SumSizes(dispatched') = signed
              /\ i * batch_size + Len(batch) = end ]_vars

\* the second batch is being signed after the first was drained
C17_Witness ==
    /\ pc = "sign"
    /\ i = 1
    /\ Len(batch) = 1
    /\ Len(dispatched) = 1
    /\ dispatched[1].size = batch_size
    /\ http_responses = 0

---------------------------------------------------------------------------
(* C18: whenever the configuration holds an Id, its start or its end is     *)
(* present.                                                                 *)
C18_IdHasABound ==
    IsSome(config.id) =>
        IsSome(Unwrap(config.id).start_id) \/ IsSome(Unwrap(config.id).end_id)

\* an Id with only an end, after the preview and two expansions in mint
C18_Witness ==
    /\ IsSome(config.id)
    /\ IsNone(Unwrap(config.id).start_id)
    /\ IsSome(Unwrap(config.id).end_id)
    /\ signed = 2

---------------------------------------------------------------------------
(* C19: when mint starts, the current identifier is the seed returned by    *)
(* process_id and the nonce is the chain nonce.                             *)
C19_PreviewHasNoEffect ==
    (pc = "mint_loop" /\ i = 0) =>
        /\ nonce = chain_nonce
        /\ IsSome(config.id) = IsSome(current_id)
        /\ IsSome(config.id) => Unwrap(config.id).id = Unwrap(current_id)

\* mint starts on a descending template that the preview has expanded
C19_Witness ==
    /\ pc = "mint_loop" /\ i = 0
    /\ EndOnly
    /\ Unwrap(config.id).id = MaxSeed
    /\ config.count > 0

---------------------------------------------------------------------------
\* the first marker is [a-b] with both bounds in u64
DoublyBounded == HasMarker /\ IsSome(MarkerStart) /\ IsSome(MarkerEnd)

(* C20: with a marker [a-b], every payload of a dispatched batch carries an *)
(* identifier v with a <= v <= b.                                           *)
C20_IdentifiersWithinRange ==
    (DoublyBounded /\ pc = "drain") =>
        \A j \in DOMAIN batch :
            \E v \in Unwrap(MarkerStart)..Unwrap(MarkerEnd) :
                batch[j].data = Expanded(v)

====
